---- MODULE Spec2Model ----
(***************************************************************************)
(* Model of the three programs of the repository.                          *)
(* disk-usage-clone, the disk-usage engine:                                *)
(*   entry.rs      DiskEntry, total_size, collapse_to_depth, sort_entries  *)
(*   traversal.rs  FlatEntry, build_tree, traverse, traverse_parallel      *)
(*   lib.rs        run, run_to_string                                      *)
(*   output.rs     render_tree                                             *)
(* dictation, the dictation app:                                           *)
(*   hotkey/manager.rs  DictationManager                                   *)
(*   pipeline.rs, commands.rs, audio/capture.rs, state.rs                  *)
(* less-clone, the pager:                                                  *)
(*   pager.rs, search.rs                                                   *)
(*                                                                         *)
(* The specifications that share the module:                               *)
(*   SpecTree       a DiskEntry tree under collapse_to_depth               *)
(*   SpecSort       a DiskEntry tree under sort_entries                    *)
(*   SpecBuild      build_tree applied to a FlatEntry list                 *)
(*   Spec           traverse followed by traverse_parallel on a filesystem *)
(*   SpecFair       the same, with the steps of the pipeline taken fairly  *)
(*   SpecRun        run on a list of paths                                 *)
(*   SpecManager    calls on a DictationManager                            *)
(*   SpecDictation  the events and commands of the dictation app           *)
(*   SpecPager      the events of the pager                                *)
(* A path is the sequence of its components below "/" (<<>> is "/").       *)
(***************************************************************************)
EXTENDS Integers, Sequences, FiniteSets, TLC

VARIABLES
    tree, orig, op,                 \* SpecTree: the tree, the tree before the last call, the last call
    flat, bpc, sorted,              \* SpecBuild: build_tree's argument, its position, the entries left to process
    children_map, root, built,      \* SpecBuild: build_tree's locals of the same names, and its return value
    fs, maxDepth, numThreads,       \* Spec: the filesystem and the arguments of the two calls
    call, stage, walkStack,         \* Spec: the running function, its position, walkdir's pending entries
    dirEntries, flatEntries,        \* Spec: Vec<DirEntry> (parallel), Vec<FlatEntry>
    slots, workers,                 \* Spec: rayon's indexed result slots and the pool's workers
    curTree, returned,              \* Spec: the local `tree`, and each function's return value
    paths, sortOrder,               \* SpecRun: args.paths (the filesystem below each), args.sort_order()
    runpc, pathIdx, results,        \* SpecRun: run's position, the loop's position, the local `results`
    outcomes,                       \* SpecRun: what traverse_parallel returned for each path so far
    runResult, stdout,              \* SpecRun: run_to_string's return value, what run printed
    manager, history,               \* dictation: DictationManager.state, the calls or events so far
    recorder, inflight,             \* dictation: AppState.recorder, the transcriptions awaited
    buffer, top_line, rows,         \* pager: the TextBuffer's lines, PagerState.top_line and .rows
    mode, search, search_input,     \* pager: PagerState.mode, .search and .search_input
    lastAction                      \* pager: the event handled last

treeVars == <<tree, orig, op>>
buildVars == <<flat, bpc, sorted, children_map, root, built>>
travVars == <<fs, maxDepth, numThreads, call, stage, walkStack, dirEntries,
              flatEntries, slots, workers, curTree, returned>>
runVars == <<paths, sortOrder, runpc, pathIdx, results, outcomes, runResult, stdout>>
dictVars == <<manager, history, recorder, inflight>>
pagerVars == <<buffer, top_line, rows, mode, search, search_input, lastAction>>
appVars == <<dictVars, pagerVars>>
vars == <<treeVars, buildVars, travVars, runVars, appVars>>

(***************************************************************************)
(* Bounds of the model.                                                    *)
(***************************************************************************)
MaxNodes == 5
MaxCollapse == 4
MaxCalls == 2
MaxSorts == 1
MaxEntries == 3
MaxFsNodes == 3
MaxThreads == 2
DefaultThreads == 2
MaxPaths == 2
MaxRunFsNodes == 2

Sizes == {1, 2}

(***************************************************************************)
(* Generic helpers.                                                        *)
(***************************************************************************)
RECURSIVE SumSeq(_)
SumSeq(s) == IF s = <<>> THEN 0 ELSE Head(s) + SumSeq(Tail(s))

RECURSIVE Flatten(_)
Flatten(ss) == IF ss = <<>> THEN <<>> ELSE Head(ss) \o Flatten(Tail(ss))

(***************************************************************************)
(* entry.rs: DiskEntry.                                                    *)
(***************************************************************************)
\* DiskEntry::new: a node without children.
NewDiskEntry(path, size_bytes, entry_type, depth) ==
    [path |-> path, size_bytes |-> size_bytes, entry_type |-> entry_type,
     depth |-> depth, children |-> <<>>]

\* DiskEntry::total_size
RECURSIVE total_size(_)
total_size(e) ==
    IF e.children = <<>>
    THEN e.size_bytes
    ELSE e.size_bytes + SumSeq([i \in 1..Len(e.children) |-> total_size(e.children[i])])

\* A collapse that keeps the node's own size instead of absorbing its descendants.
CollapsedNodeKeepsOwnSize(e) ==
    [e EXCEPT !.children = <<>>]

\* The first branch of collapse_recursive: absorb all descendants.
CollapsedNode(e) ==
    [e EXCEPT !.size_bytes = total_size(e), !.children = <<>>]

\* A comparison that collapses only strictly below max_depth.
AtOrPastMaxDepthStrict(current_depth, max_depth) ==
    current_depth > max_depth

\* The condition of collapse_recursive.
AtOrPastMaxDepth(current_depth, max_depth) ==
    current_depth >= max_depth

\* A recursion that forgets to count the level it descends.
ChildDepthSame(current_depth) == current_depth

\* The depth collapse_recursive passes to a child.
ChildDepth(current_depth) == current_depth + 1

\* DiskEntry::collapse_recursive
RECURSIVE collapse_recursive(_, _, _)
collapse_recursive(e, current_depth, max_depth) ==
    IF AtOrPastMaxDepth(current_depth, max_depth)
    THEN CollapsedNode(e)
    ELSE [e EXCEPT !.children =
            [i \in 1..Len(e.children) |->
                collapse_recursive(e.children[i], ChildDepth(current_depth), max_depth)]]

\* DiskEntry::collapse_to_depth
collapse_to_depth(e, max_depth) == collapse_recursive(e, 0, max_depth)

\* enum SortOrder
SortOrders == {"None", "SizeAscending", "SizeDescending", "Name"}

\* Ord for Path: component by component, a proper prefix first.
RECURSIVE PathLessEq(_, _)
PathLessEq(p, q) ==
    IF p = <<>> THEN TRUE
    ELSE IF q = <<>> THEN FALSE
    ELSE IF Head(p) # Head(q) THEN Head(p) < Head(q)
    ELSE PathLessEq(Tail(p), Tail(q))

\* A key that is not wrapped in Reverse.
ReverseLessEqForgotten(x, y) == x <= y

\* Ord for std::cmp::Reverse: Reverse(x) <= Reverse(y) when y <= x.
ReverseLessEq(x, y) == y <= x

\* Size keys that are the entries' own sizes.
KeyLessEqOwnSize(order, a, b) ==
    IF order = "SizeAscending" THEN a.size_bytes <= b.size_bytes
    ELSE IF order = "SizeDescending" THEN ReverseLessEq(a.size_bytes, b.size_bytes)
    ELSE PathLessEq(a.path, b.path)

\* a <= b under the key or comparator of the order.
KeyLessEq(order, a, b) ==
    IF order = "SizeAscending" THEN total_size(a) <= total_size(b)
    ELSE IF order = "SizeDescending" THEN ReverseLessEq(total_size(a), total_size(b))
    ELSE PathLessEq(a.path, b.path)

\* A sort that moves an element in front of the elements equal to it.
StaysInFrontOnlyIfLess(order, y, x) == ~KeyLessEq(order, x, y)

\* slice::sort_by and sort_by_key are stable: an element y that came before x
\* stays in front of x unless it is greater.
StaysInFront(order, y, x) == KeyLessEq(order, y, x)

\* An insertion that drops an element whose key is already present.
RECURSIVE InsertDroppingTies(_, _, _)
InsertDroppingTies(s, x, order) ==
    IF s = <<>> THEN <<x>>
    ELSE IF KeyLessEq(order, Head(s), x) /\ KeyLessEq(order, x, Head(s)) THEN s
    ELSE IF KeyLessEq(order, Head(s), x)
    THEN <<Head(s)>> \o InsertDroppingTies(Tail(s), x, order)
    ELSE <<x>> \o s

\* x, which came after every element of the sorted s, takes its place in s.
RECURSIVE InsertStable(_, _, _)
InsertStable(s, x, order) ==
    IF s = <<>> THEN <<x>>
    ELSE IF StaysInFront(order, Head(s), x)
    THEN <<Head(s)>> \o InsertStable(Tail(s), x, order)
    ELSE <<x>> \o s

\* The stable sort of s.
RECURSIVE StableSort(_, _)
StableSort(s, order) ==
    IF s = <<>> THEN <<>>
    ELSE InsertStable(StableSort(SubSeq(s, 1, Len(s) - 1), order), s[Len(s)], order)

\* DiskEntry::sort_entries: the descendants first, then this node's children.
RECURSIVE sort_entries(_, _)
sort_entries(e, order) ==
    LET kids == [i \in 1..Len(e.children) |-> sort_entries(e.children[i], order)]
    IN  [e EXCEPT !.children = IF order = "None" THEN kids ELSE StableSort(kids, order)]

(***************************************************************************)
(* traversal.rs: FlatEntry and build_tree.                                 *)
(***************************************************************************)
FlatEntry(path, size, entry_type, depth) ==
    [path |-> path, size |-> size, entry_type |-> entry_type, depth |-> depth]

\* Result<DiskEntry, DuskError>
Ok(t) == [ok |-> TRUE, value |-> t, kind |-> "", msg |-> ""]
Err(kind, msg) == [ok |-> FALSE, value |-> <<>>, kind |-> kind, msg |-> msg]

\* Path::parent: "/" has none, any other path loses its last component.
HasParent(p) == Len(p) > 0
Parent(p) == SubSeq(p, 1, Len(p) - 1)

MaxDepthIn(s) ==
    LET ds == {s[i].depth : i \in 1..Len(s)}
    IN  CHOOSE d \in ds : \A x \in ds : x <= d

\* A list that is left in the order it came in.
LeftUnsorted(s) == s

\* sorted.sort_by(|a, b| b.depth.cmp(&a.depth)): a stable sort, deepest first.
SortByDepthDescending(s) ==
    IF s = <<>> THEN <<>>
    ELSE Flatten([k \in 1..(MaxDepthIn(s) + 1) |->
                    SelectSeq(s, LAMBDA e : e.depth = MaxDepthIn(s) + 1 - k)])

\* A root test that also takes the entries just below the root.
IsRootEntryLoose(entry) == entry.depth <= 1

\* `if entry.depth == 0`
IsRootEntry(entry) == entry.depth = 0

\* children_map.remove(&entry.path).unwrap_or_default(): the value taken.
TakeChildren(map, path) == IF path \in DOMAIN map THEN map[path] ELSE <<>>

\* children_map.remove(&entry.path): the map left.
RemoveKey(map, path) == [p \in DOMAIN map \ {path} |-> map[p]]

\* children_map.entry(parent).or_default().push(disk_entry)
PushChild(map, parent, disk_entry) ==
    [p \in DOMAIN map \cup {parent} |->
        IF p = parent THEN Append(TakeChildren(map, parent), disk_entry) ELSE map[p]]

\* One iteration of `for entry in sorted`, on the locals st = [children_map, root].
BuildIteration(st, entry) ==
    LET children == TakeChildren(st.children_map, entry.path)
        map1 == RemoveKey(st.children_map, entry.path)
        disk_entry == [NewDiskEntry(entry.path, entry.size, entry.entry_type, entry.depth)
                          EXCEPT !.children = children]
    IN  IF IsRootEntry(entry)
        THEN [children_map |-> map1, root |-> <<disk_entry>>]
        ELSE IF HasParent(entry.path)
        THEN [children_map |-> PushChild(map1, Parent(entry.path), disk_entry),
              root |-> st.root]
        ELSE [children_map |-> map1, root |-> st.root]

\* root.ok_or_else(...)
RootOrError(r) ==
    IF r = <<>> THEN Err("TraversalError", "no root entry found") ELSE Ok(r[1])

RECURSIVE BuildLoop(_, _)
BuildLoop(st, entries) ==
    IF entries = <<>> THEN st
    ELSE BuildLoop(BuildIteration(st, Head(entries)), Tail(entries))

\* build_tree as a function of its argument.
build_tree(flat_entries) ==
    IF flat_entries = <<>>
    THEN Err("TraversalError", "no entries found during traversal")
    ELSE RootOrError(BuildLoop([children_map |-> <<>>, root |-> <<>>],
                               SortByDepthDescending(flat_entries)).root)

(***************************************************************************)
(* Observers of a tree, used to state the properties.                      *)
(***************************************************************************)
\* Every node of the tree.
RECURSIVE NodeSet(_)
NodeSet(e) == {e} \cup UNION {NodeSet(e.children[i]) : i \in 1..Len(e.children)}

\* The number of nodes of the tree (fn count_entries of the tests).
RECURSIVE NodeCount(_)
NodeCount(e) == 1 + SumSeq([i \in 1..Len(e.children) |-> NodeCount(e.children[i])])

\* A tree without the order of siblings: each node with how many times each
\* unordered subtree hangs below it.
RECURSIVE Unordered(_)
Unordered(e) ==
    LET kids == [i \in 1..Len(e.children) |-> Unordered(e.children[i])]
    IN  [path |-> e.path, size_bytes |-> e.size_bytes, entry_type |-> e.entry_type,
         depth |-> e.depth, total |-> total_size(e),
         kids |-> {<<kids[i], Cardinality({j \in 1..Len(kids) : kids[j] = kids[i]})>> :
                      i \in 1..Len(kids)}]

(***************************************************************************)
(* SpecTree: the trees the operations are applied to.  A tree of n nodes   *)
(* is given by its parent vector (node 1 is the root, the parent of node i *)
(* is a node before i), a size per node and the direction in which sibling *)
(* names run; a node's depth is its distance from the root and its path    *)
(* is its parent's path extended by its own name.                          *)
(***************************************************************************)
ParentVectors(n) ==
    {p \in [1..n -> 0..(n - 1)] : p[1] = 0 /\ \A i \in 2..n : p[i] \in 1..(i - 1)}

NameOf(i, rev) == IF rev THEN MaxNodes + 2 - i ELSE i

RECURSIVE MkTree(_, _, _, _, _, _, _)
MkTree(i, n, par, sz, rev, path, depth) ==
    LET kids == SelectSeq([k \in 1..n |-> k], LAMBDA k : par[k] = i)
    IN  [path |-> path, size_bytes |-> sz[i],
         entry_type |-> IF kids = <<>> THEN "File" ELSE "Directory",
         depth |-> depth,
         children |-> [j \in 1..Len(kids) |->
                          MkTree(kids[j], n, par, sz, rev,
                                 Append(path, NameOf(kids[j], rev)), depth + 1)]]

NoCall == [name |-> "none", arg |-> 0, seq |-> 0]

\* The values the variables of a specification hold while another one runs.
IdleTree == tree = <<>> /\ orig = <<>> /\ op = NoCall
IdleBuild ==
    /\ flat = <<>> /\ bpc = "idle" /\ sorted = <<>>
    /\ children_map = <<>> /\ root = <<>> /\ built = <<>>
IdleTrav ==
    /\ fs = <<>> /\ maxDepth = <<>> /\ numThreads = 0
    /\ call = "none" /\ stage = "Idle" /\ walkStack = <<>>
    /\ dirEntries = <<>> /\ flatEntries = <<>>
    /\ slots = <<>> /\ workers = <<>>
    /\ curTree = <<>> /\ returned = <<>>

IdleRun ==
    /\ paths = <<>> /\ sortOrder = "None"
    /\ runpc = "idle" /\ pathIdx = 0 /\ results = <<>>
    /\ outcomes = <<>> /\ runResult = <<>> /\ stdout = <<>>

IdleDictation ==
    manager = "Idle" /\ history = <<>> /\ recorder = "None" /\ inflight = <<>>

IdlePager ==
    /\ buffer = <<>> /\ top_line = 0 /\ rows = 0
    /\ mode = "Normal" /\ search = <<>> /\ search_input = <<>> /\ lastAction = "None"

IdleApps == IdleDictation /\ IdlePager

InitTree ==
    /\ \E n \in 1..MaxNodes :
          \E par \in ParentVectors(n), sz \in [1..n -> Sizes], rev \in BOOLEAN :
              tree = MkTree(1, n, par, sz, rev, <<NameOf(1, rev)>>, 0)
    /\ orig = tree
    /\ op = NoCall
    /\ IdleBuild /\ IdleTrav /\ IdleRun /\ IdleApps

\* tree.collapse_to_depth(d)
CollapseToDepth(d) ==
    /\ op.seq < MaxCalls
    /\ orig' = tree
    /\ tree' = collapse_to_depth(tree, d)
    /\ op' = [name |-> "collapse", arg |-> d, seq |-> op.seq + 1]
    /\ UNCHANGED <<appVars, buildVars, travVars, runVars>>

\* tree.sort_entries(&order)
SortEntries(order) ==
    /\ op.seq < MaxSorts
    /\ orig' = tree
    /\ tree' = sort_entries(tree, order)
    /\ op' = [name |-> "sort", arg |-> order, seq |-> op.seq + 1]
    /\ UNCHANGED <<appVars, buildVars, travVars, runVars>>

NextTree ==
    \E d \in 0..MaxCollapse : CollapseToDepth(d)

SpecTree == InitTree /\ [][NextTree]_vars

\* SpecSort: the same trees under sort_entries.
NextSort ==
    \E order \in SortOrders : SortEntries(order)

SpecSort == InitTree /\ [][NextSort]_vars

(***************************************************************************)
(* SpecBuild: build_tree on the FlatEntry lists of up to MaxEntries        *)
(* records over a few paths, depths and sizes, and on the list of the      *)
(* tests' directory (fn create_test_tree).  build_tree copies entry_type   *)
(* into the node without reading it; the enumerated records are all        *)
(* directories, the tests' list holds files too.                           *)
(***************************************************************************)
BuildPaths == {<<>>, <<1>>, <<1, 1>>, <<1, 2>>, <<1, 1, 1>>}
FlatDepths == {0, 1, 2}

FlatEntries ==
    {FlatEntry(p, s, "Directory", d) : p \in BuildPaths, s \in Sizes, d \in FlatDepths}

FlatLists == UNION {[1..n -> FlatEntries] : n \in 0..MaxEntries}

\* root/, file_a.txt (5), subdir/, subdir/file_b.txt (10), subdir/nested/,
\* subdir/nested/file_c.txt (20), in walkdir's order; a directory's own size is 3.
TestTreeList ==
    << FlatEntry(<<9>>, 3, "Directory", 0),
       FlatEntry(<<9, 1>>, 5, "File", 1),
       FlatEntry(<<9, 2>>, 3, "Directory", 1),
       FlatEntry(<<9, 2, 1>>, 10, "File", 2),
       FlatEntry(<<9, 2, 2>>, 3, "Directory", 2),
       FlatEntry(<<9, 2, 2, 1>>, 20, "File", 3) >>

InitBuild ==
    /\ flat \in FlatLists \cup {TestTreeList}
    /\ bpc = "call"
    /\ sorted = <<>>
    /\ children_map = <<>>
    /\ root = <<>>
    /\ built = <<>>
    /\ IdleTree /\ IdleTrav /\ IdleRun /\ IdleApps

\* build_tree, lines 175-191: the empty check, the sort, the empty locals.
BuildEnter ==
    /\ bpc = "call"
    /\ IF flat = <<>>
       THEN /\ built' = <<Err("TraversalError", "no entries found during traversal")>>
            /\ bpc' = "returned"
            /\ sorted' = <<>>
       ELSE /\ sorted' = SortByDepthDescending(flat)
            /\ bpc' = "loop"
            /\ built' = built
    /\ UNCHANGED <<appVars, flat, children_map, root, treeVars, travVars, runVars>>

\* One pass of the loop body, lines 194-217.
BuildProcessEntry ==
    /\ bpc = "loop"
    /\ sorted # <<>>
    /\ LET st == BuildIteration([children_map |-> children_map, root |-> root], Head(sorted))
       IN  /\ children_map' = st.children_map
           /\ root' = st.root
    /\ sorted' = Tail(sorted)
    /\ UNCHANGED <<appVars, flat, bpc, built, treeVars, travVars, runVars>>

\* Line 220: the return.
BuildReturn ==
    /\ bpc = "loop"
    /\ sorted = <<>>
    /\ built' = <<RootOrError(root)>>
    /\ bpc' = "returned"
    /\ UNCHANGED <<appVars, flat, sorted, children_map, root, treeVars, travVars, runVars>>

NextBuild == BuildEnter \/ BuildProcessEntry \/ BuildReturn

SpecBuild == InitBuild /\ [][NextBuild]_vars

(***************************************************************************)
(* Spec: traverse and then traverse_parallel on the same root of one       *)
(* unchanging filesystem (test_traverse_parallel_file_sizes_match_         *)
(* sequential).  The filesystem below the root is a tree of up to          *)
(* MaxFsNodes entries: entry 1 is the root, entry i has the name i and     *)
(* hangs below entry par[i].  An entry with entries below it is a          *)
(* directory; `special` names an entry of kind specialKind, every other    *)
(* leaf is a regular file (the canonical root is no symbolic link).  The   *)
(* entries below a symbolic link are what its target holds, seen through   *)
(* the link: for a link to a directory above it, that directory again.     *)
(* walkdir yields an error for entry badStat, and metadata() fails for     *)
(* entry badMeta (0: for none).  Sizes are naturals: an entry's length is  *)
(* well below the width of u64.                                            *)
(***************************************************************************)
FileSystemsOf(n) ==
    {f \in [exists : BOOLEAN, n : {n}, par : ParentVectors(n), special : 0..n,
             specialKind : {"Symlink", "Directory", "Other"},
             badStat : 0..n, badMeta : 0..n] :
        /\ \A k \in 2..n : f.par[k] = f.special => f.specialKind = "Symlink"
        /\ f.special = 0 => f.specialKind = "Symlink"
        /\ f.special = 1 => f.specialKind # "Symlink"}

FileSystems == UNION {FileSystemsOf(n) : n \in 1..MaxFsNodes}

\* Option<usize> arguments: <<>> is None, <<k>> is Some(k).
MaxDepthArgs == {<<>>, <<0>>, <<1>>}
ThreadArgs == {<<>>} \cup {<<k>> : k \in 1..MaxThreads}

FsChildren(f, i) == SelectSeq([k \in 1..f.n |-> k], LAMBDA k : f.par[k] = i)

RECURSIVE FsPath(_, _)
FsPath(f, i) == IF f.par[i] = 0 THEN <<i>> ELSE Append(FsPath(f, f.par[i]), i)

\* walkdir's DirEntry::depth: the number of components below the root.
FsDepth(f, i) == Len(FsPath(f, i)) - 1

\* The file type readdir reports for an entry.
FsFileType(f, i) ==
    IF i = f.special /\ f.specialKind = "Symlink" THEN "symlink"
    ELSE IF FsChildren(f, i) # <<>> THEN "dir"
    ELSE IF i # f.special THEN "file"
    ELSE IF f.specialKind = "Directory" THEN "dir"
    ELSE "special"

\* The length metadata() reports for an entry.
FsLen(f, i) == 2 ^ (i - 1)

\* walkdir::DirEntry
DirEntry(f, i) ==
    [node |-> i, path |-> FsPath(f, i), file_type |-> FsFileType(f, i),
     depth |-> FsDepth(f, i)]

\* fn dir_entry_to_entry_type
dir_entry_to_entry_type(de) ==
    IF de.file_type = "dir" THEN "Directory"
    ELSE IF de.file_type = "symlink" THEN "Symlink"
    ELSE IF de.file_type = "file" THEN "File"
    ELSE "Other"

\* A length taken without looking at the result of metadata().
MetadataLenUnchecked(f, de) == FsLen(f, de.node)

\* dir_entry.metadata().map(|m| m.len()).unwrap_or(0)
MetadataLenOrZero(f, de) == IF de.node = f.badMeta THEN 0 ELSE FsLen(f, de.node)

\* A filter_map closure that never reads the metadata.
SequentialFlatEntryNoMetadata(f, de) ==
    FlatEntry(de.path, 0, dir_entry_to_entry_type(de), de.depth)

\* The closure of traverse's filter_map, Ok branch.
SequentialFlatEntry(f, de) ==
    FlatEntry(de.path, MetadataLenOrZero(f, de), dir_entry_to_entry_type(de), de.depth)

\* A map closure that never reads the metadata.
ParallelFlatEntryNoMetadata(f, de) ==
    FlatEntry(de.path, 0, dir_entry_to_entry_type(de), de.depth)

\* The closure of traverse_parallel's par_iter().map().
ParallelFlatEntry(f, de) ==
    FlatEntry(de.path, MetadataLenOrZero(f, de), dir_entry_to_entry_type(de), de.depth)

NoReturn == [traverse |-> <<>>, traverse_parallel |-> <<>>]

Init ==
    /\ fs \in FileSystems
    /\ maxDepth \in MaxDepthArgs
    /\ numThreads \in ThreadArgs
    /\ call = "none"
    /\ stage = "Idle"
    /\ walkStack = <<>>
    /\ dirEntries = <<>>
    /\ flatEntries = <<>>
    /\ slots = <<>>
    /\ workers = <<>>
    /\ curTree = <<>>
    /\ returned = NoReturn
    /\ IdleTree /\ IdleBuild /\ IdleRun /\ IdleApps

\* A pool that outlives the call that built it.
KeptPool(ws) == ws

\* `pool` goes out of scope when the function returns.
DroppedPool(ws) == <<>>

\* The function returns `result`: its locals, the pool among them, are dropped.
Return(result) ==
    /\ returned' = [returned EXCEPT ![call] = <<result>>]
    /\ call' = "none"
    /\ stage' = "Idle"
    /\ walkStack' = <<>>
    /\ dirEntries' = <<>>
    /\ flatEntries' = <<>>
    /\ slots' = <<>>
    /\ workers' = DroppedPool(workers)
    /\ curTree' = <<>>

\* traverse(path, max_depth) is called.
CallTraverse ==
    /\ call = "none"
    /\ returned.traverse = <<>>
    /\ call' = "traverse"
    /\ stage' = "Canonicalize"
    /\ UNCHANGED <<appVars, fs, maxDepth, numThreads, walkStack, dirEntries, flatEntries,
                   slots, workers, curTree, returned, treeVars, buildVars, runVars>>

\* traverse_parallel(path, max_depth, num_threads) is called, after traverse returned.
CallTraverseParallel ==
    /\ call = "none"
    /\ returned.traverse # <<>>
    /\ returned.traverse_parallel = <<>>
    /\ call' = "traverse_parallel"
    /\ stage' = "Canonicalize"
    /\ UNCHANGED <<appVars, fs, maxDepth, numThreads, walkStack, dirEntries, flatEntries,
                   slots, workers, curTree, returned, treeVars, buildVars, runVars>>

\* A canonicalize that resolves every path, also one that does not exist.
CanonicalizeOkAlways(f) == TRUE

\* path.canonicalize() is Ok: the path as given names an existing entry.
CanonicalizeOk(f) == f.exists

\* path.canonicalize().map_err(|_| PathNotFound(path))?, then WalkDir::new(&root).
\* The error carries `path`, the argument as given, not a resolved form of it.
Canonicalize ==
    /\ stage = "Canonicalize"
    /\ IF CanonicalizeOk(fs)
       THEN /\ stage' = "Enumerating"
            /\ walkStack' = <<1>>
            /\ UNCHANGED <<call, dirEntries, flatEntries, slots, workers, curTree, returned>>
       ELSE Return(Err("PathNotFound", "path"))
    /\ UNCHANGED <<appVars, fs, maxDepth, numThreads, treeVars, buildVars, runVars>>

\* A walk built with follow_links(true): it enters the target of a link too.
EntersFollowingLinks(de) == de.file_type \in {"dir", "symlink"}

\* WalkDir::new(&root).follow_links(false): the walk enters directories only.
Enters(de) == de.file_type = "dir"

\* One item of the walkdir iterator: an error is dropped (and the entry not
\* entered); an entry is kept and, when it is a directory, its entries come next.
\* traverse reads the metadata here; traverse_parallel keeps the DirEntry.
WalkNext ==
    /\ stage = "Enumerating"
    /\ walkStack # <<>>
    /\ LET i == Head(walkStack)
           de == DirEntry(fs, i)
       IN  IF i = fs.badStat
           THEN /\ walkStack' = Tail(walkStack)
                /\ UNCHANGED <<dirEntries, flatEntries>>
           ELSE /\ walkStack' = (IF Enters(de) THEN FsChildren(fs, i) ELSE <<>>)
                                    \o Tail(walkStack)
                /\ IF call = "traverse"
                   THEN /\ flatEntries' = Append(flatEntries, SequentialFlatEntry(fs, de))
                        /\ UNCHANGED dirEntries
                   ELSE /\ dirEntries' = Append(dirEntries, de)
                        /\ UNCHANGED flatEntries
    /\ UNCHANGED <<appVars, fs, maxDepth, numThreads, call, stage, slots, workers, curTree,
                   returned, treeVars, buildVars, runVars>>

\* The iterator is exhausted: collect() returns.
WalkDone ==
    /\ stage = "Enumerating"
    /\ walkStack = <<>>
    /\ stage' = IF call = "traverse" THEN "BuildingTree" ELSE "BuildPool"
    /\ UNCHANGED <<appVars, fs, maxDepth, numThreads, call, walkStack, dirEntries, flatEntries,
                   slots, workers, curTree, returned, treeVars, buildVars, runVars>>

\* A pool that gets no worker when no count is given.
PoolSizeWithoutDefault == IF numThreads = <<>> THEN 0 ELSE numThreads[1]

\* The size of the pool: num_threads, or the number of processors.
PoolSize == IF numThreads = <<>> THEN DefaultThreads ELSE numThreads[1]

\* ThreadPoolBuilder::build() succeeds and pool.install starts the parallel map.
BuildPool ==
    /\ stage = "BuildPool"
    /\ workers' = [w \in 1..PoolSize |-> 0]
    /\ slots' = [i \in 1..Len(dirEntries) |-> [st |-> "todo", val |-> <<>>]]
    /\ stage' = "CollectingMetadata"
    /\ UNCHANGED <<appVars, fs, maxDepth, numThreads, call, walkStack, dirEntries, flatEntries,
                   curTree, returned, treeVars, buildVars, runVars>>

\* ThreadPoolBuilder::build() fails: map_err(TraversalError)?.
BuildPoolFails ==
    /\ stage = "BuildPool"
    /\ Return(Err("TraversalError", "thread pool"))
    /\ UNCHANGED <<appVars, fs, maxDepth, numThreads, treeVars, buildVars, runVars>>

\* A split of the parallel iterator that hands out an item a worker is busy with.
ItemAvailableOrTaken(slot) == slot.st # "done"

\* An item of the parallel iterator that no worker has taken.
ItemAvailable(slot) == slot.st = "todo"

\* An idle worker takes an item of the parallel iterator no worker has taken.
WorkerTake(w, i) ==
    /\ stage = "CollectingMetadata"
    /\ workers[w] = 0
    /\ ItemAvailable(slots[i])
    /\ workers' = [workers EXCEPT ![w] = i]
    /\ slots' = [slots EXCEPT ![i].st = "taken"]
    /\ UNCHANGED <<appVars, fs, maxDepth, numThreads, call, stage, walkStack, dirEntries,
                   flatEntries, curTree, returned, treeVars, buildVars, runVars>>

\* The worker runs the closure on its item and writes the result to the item's place.
WorkerMap(w) ==
    /\ stage = "CollectingMetadata"
    /\ workers[w] # 0
    /\ slots' = [slots EXCEPT ![workers[w]] =
                    [st |-> "done", val |-> <<ParallelFlatEntry(fs, dirEntries[workers[w]])>>]]
    /\ workers' = [workers EXCEPT ![w] = 0]
    /\ UNCHANGED <<appVars, fs, maxDepth, numThreads, call, stage, walkStack, dirEntries,
                   flatEntries, curTree, returned, treeVars, buildVars, runVars>>

\* A join that only waits until every item is handed out.
NoneLeftToTake(sl) == \A i \in 1..Len(sl) : sl[i].st # "todo"

\* A join that waits for one result more than there are items.
OneMoreMappedThanItems(sl) ==
    Cardinality({i \in 1..Len(sl) : sl[i].st = "done"}) > Len(sl)

\* Every item of the parallel iterator is mapped.
AllMapped(sl) == \A i \in 1..Len(sl) : sl[i].st = "done"

\* collect() and pool.install return once every item is mapped: the results,
\* in the order of the items.
JoinWorkers ==
    /\ stage = "CollectingMetadata"
    /\ AllMapped(slots)
    /\ flatEntries' = Flatten([i \in 1..Len(slots) |-> slots[i].val])
    /\ stage' = "BuildingTree"
    /\ UNCHANGED <<appVars, fs, maxDepth, numThreads, call, walkStack, dirEntries, slots,
                   workers, curTree, returned, treeVars, buildVars, runVars>>

\* A pipeline that never collapses.
AfterBuildingTreeNoCollapse(max_depth) == "Returning"

\* `if let Some(depth) = max_depth`: what follows build_tree.
AfterBuildingTree(max_depth) == IF max_depth # <<>> THEN "Collapsing" ELSE "Returning"

\* let mut tree = build_tree(flat_entries)?;
BuildingTree ==
    /\ stage = "BuildingTree"
    /\ LET r == build_tree(flatEntries)
       IN  IF r.ok
           THEN /\ curTree' = <<r.value>>
                /\ stage' = AfterBuildingTree(maxDepth)
                /\ UNCHANGED <<call, walkStack, dirEntries, flatEntries, slots, workers,
                               returned>>
           ELSE Return(r)
    /\ UNCHANGED <<appVars, fs, maxDepth, numThreads, treeVars, buildVars, runVars>>

\* if let Some(depth) = max_depth { tree.collapse_to_depth(depth); }
Collapsing ==
    /\ stage = "Collapsing"
    /\ curTree' = <<collapse_to_depth(curTree[1], maxDepth[1])>>
    /\ stage' = "Returning"
    /\ UNCHANGED <<appVars, fs, maxDepth, numThreads, call, walkStack, dirEntries, flatEntries,
                   slots, workers, returned, treeVars, buildVars, runVars>>

\* Ok(tree)
ReturnTree ==
    /\ stage = "Returning"
    /\ Return(Ok(curTree[1]))
    /\ UNCHANGED <<appVars, fs, maxDepth, numThreads, treeVars, buildVars, runVars>>

Next ==
    \/ CallTraverse
    \/ CallTraverseParallel
    \/ Canonicalize
    \/ WalkNext
    \/ WalkDone
    \/ BuildPool
    \/ BuildPoolFails
    \/ \E w \in 1..Len(workers) : \E i \in 1..Len(slots) : WorkerTake(w, i)
    \/ \E w \in 1..Len(workers) : WorkerMap(w)
    \/ JoinWorkers
    \/ BuildingTree
    \/ Collapsing
    \/ ReturnTree

Spec == Init /\ [][Next]_vars

\* The calling thread runs and the workers of the pool run until no item is
\* left: a step of the pipeline that can be taken is eventually taken.
\* The filesystems are those whose metadata can be read: a failing
\* metadata() changes a size and no step.
InitFair == Init /\ fs.badMeta = 0

SpecFair == InitFair /\ [][Next]_vars /\ WF_vars(Next)

(***************************************************************************)
(* SpecRun: run, and run_to_string in it, on a list of up to MaxPaths      *)
(* paths with the default output options (sizes in bytes, directories      *)
(* only, no summary).  Each path names the root of a filesystem of its     *)
(* own; the loop calls traverse_parallel, whose steps are the actions of   *)
(* Spec, then sorts and renders the tree.  The text of a line is the pair  *)
(* of the size and the path it shows.  A path that exists holds regular    *)
(* files and directories; its root is the one entry enumeration may fail   *)
(* for, which empties the entry list.                                      *)
(***************************************************************************)
\* output.rs: render_entry, one line.
render_entry(e) == [size |-> total_size(e), path |-> e.path]

\* output.rs: collect_lines with show_all = false: the children's lines, then
\* the entry's own line when it is a directory.
RECURSIVE collect_lines(_)
collect_lines(e) ==
    Flatten([i \in 1..Len(e.children) |-> collect_lines(e.children[i])])
        \o (IF e.entry_type = "Directory" THEN <<render_entry(e)>> ELSE <<>>)

\* output.rs: render_tree with summarize = false.
render_tree(e) == collect_lines(e)

RunFileSystems ==
    {f \in UNION {FileSystemsOf(n) : n \in 1..MaxRunFsNodes} :
        /\ f.special = 0 /\ f.badMeta = 0 /\ f.badStat \in {0, 1}
        /\ ~f.exists => (f.n = 1 /\ f.badStat = 0)}

PathLists == UNION {[1..n -> RunFileSystems] : n \in 1..MaxPaths}

InitRun ==
    /\ paths \in PathLists
    /\ sortOrder \in SortOrders
    /\ maxDepth \in MaxDepthArgs
    /\ numThreads \in ThreadArgs
    /\ runpc = "loop" /\ pathIdx = 0 /\ results = <<>>
    /\ outcomes = <<>> /\ runResult = <<>> /\ stdout = <<>>
    /\ fs = <<>>
    /\ call = "none" /\ stage = "Idle" /\ walkStack = <<>>
    /\ dirEntries = <<>> /\ flatEntries = <<>>
    /\ slots = <<>> /\ workers = <<>>
    /\ curTree = <<>> /\ returned = NoReturn
    /\ IdleTree /\ IdleBuild /\ IdleApps

\* for path_str in &args.paths: traverse_parallel(path, args.max_depth, args.threads)
RunNextPath ==
    /\ runpc = "loop"
    /\ pathIdx < Len(paths)
    /\ pathIdx' = pathIdx + 1
    /\ fs' = paths[pathIdx + 1]
    /\ call' = "traverse_parallel"
    /\ stage' = "Canonicalize"
    /\ returned' = NoReturn
    /\ runpc' = "traversing"
    /\ UNCHANGED <<appVars, maxDepth, numThreads, walkStack, dirEntries, flatEntries, slots,
                   workers, curTree, treeVars, buildVars, paths, sortOrder, results,
                   outcomes, runResult, stdout>>

\* A loop that answers an error with the output gathered so far.
PartialOutputOnError(r, res) == Ok(res)

\* The `?` on an Err: run_to_string returns the error, `results` is dropped.
ErrorOnError(r, res) == r

\* let mut tree = traverse_parallel(..)?;
RunTraverseReturned ==
    /\ runpc = "traversing"
    /\ call = "none"
    /\ returned.traverse_parallel # <<>>
    /\ LET r == returned.traverse_parallel[1]
       IN  /\ outcomes' = Append(outcomes, r)
           /\ IF r.ok
              THEN /\ tree' = r.value
                   /\ runpc' = "Sorting"
                   /\ UNCHANGED <<results, runResult>>
              ELSE /\ runResult' = <<ErrorOnError(r, results)>>
                   /\ results' = <<>>
                   /\ runpc' = "returned"
                   /\ UNCHANGED tree
    /\ UNCHANGED <<appVars, orig, op, buildVars, travVars, paths, sortOrder, pathIdx, stdout>>

\* tree.sort_entries(&sort_order);
RunSort ==
    /\ runpc = "Sorting"
    /\ tree' = sort_entries(tree, sortOrder)
    /\ runpc' = "Rendering"
    /\ UNCHANGED <<appVars, orig, op, buildVars, travVars, paths, sortOrder, pathIdx, results,
                   outcomes, runResult, stdout>>

\* results.push(render_tree(&tree, ..)); the iteration ends and `tree` is dropped.
RunRender ==
    /\ runpc = "Rendering"
    /\ results' = Append(results, render_tree(tree))
    /\ tree' = <<>>
    /\ runpc' = "loop"
    /\ UNCHANGED <<appVars, orig, op, buildVars, travVars, paths, sortOrder, pathIdx, outcomes,
                   runResult, stdout>>

\* Ok(results.join("\n"))
RunJoin ==
    /\ runpc = "loop"
    /\ pathIdx = Len(paths)
    /\ runResult' = <<Ok(results)>>
    /\ results' = <<>>
    /\ runpc' = "returned"
    /\ UNCHANGED <<appVars, treeVars, buildVars, travVars, paths, sortOrder, pathIdx, outcomes,
                   stdout>>

\* run: let output = run_to_string(args)?; println!("{output}");
RunPrint ==
    /\ runpc = "returned"
    /\ stdout' = IF runResult[1].ok THEN <<runResult[1].value>> ELSE <<>>
    /\ runpc' = "done"
    /\ UNCHANGED <<appVars, treeVars, buildVars, travVars, paths, sortOrder, pathIdx, results,
                   outcomes, runResult>>

NextRun ==
    \/ RunNextPath
    \/ Canonicalize
    \/ WalkNext
    \/ WalkDone
    \/ BuildPool
    \/ BuildPoolFails
    \/ \E w \in 1..Len(workers) : \E i \in 1..Len(slots) : WorkerTake(w, i)
    \/ \E w \in 1..Len(workers) : WorkerMap(w)
    \/ JoinWorkers
    \/ BuildingTree
    \/ Collapsing
    \/ ReturnTree
    \/ RunTraverseReturned
    \/ RunSort
    \/ RunRender
    \/ RunJoin
    \/ RunPrint

SpecRun == InitRun /\ [][NextRun]_vars

(***************************************************************************)
(* Properties of collapse_to_depth (SpecTree).                             *)
(***************************************************************************)
Collapsed == op.name = "collapse"

MaxDepthOf(e) ==
    LET ds == {n.depth : n \in NodeSet(e)}
    IN  CHOOSE d \in ds : \A x \in ds : x <= d

\* C1: collapse_to_depth(d) leaves total_size unchanged for the root and for
\* every node that is still in the tree after the call.
C1_CollapsePreservesTotals ==
    Collapsed =>
        /\ total_size(tree) = total_size(orig)
        /\ LET before == NodeSet(orig)
           IN  \A n \in NodeSet(tree) :
                 /\ \E m \in before : m.path = n.path
                 /\ \A m \in before : m.path = n.path => total_size(n) = total_size(m)

\* A call that removed descendants and kept more than the root.
C1_Witness ==
    /\ Collapsed /\ op.seq = 1
    /\ NodeCount(tree) > 1
    /\ NodeCount(tree) < NodeCount(orig)
    /\ \E n \in NodeSet(tree) : n.size_bytes > 2

RECURSIVE CollapseContract(_, _)
CollapseContract(e, d) ==
    IF e.depth >= d
    THEN [e EXCEPT !.size_bytes = total_size(e), !.children = <<>>]
    ELSE [e EXCEPT !.children =
            [i \in 1..Len(e.children) |-> CollapseContract(e.children[i], d)]]

C8_WitnessZero ==
    Collapsed /\ op.seq = 1 /\ op.arg = 0 /\ NodeCount(orig) = MaxNodes

(***************************************************************************)
(* Properties of sort_entries (SpecTree).                                  *)
(***************************************************************************)
Sorted == op.name = "sort"

\* The node that has the path of n among the nodes of the tree before the call.
BeforeIn(nodes, n) == CHOOSE m \in nodes : m.path = n.path

Before(n) == BeforeIn(NodeSet(orig), n)

ChildPaths(n) == [i \in 1..Len(n.children) |-> n.children[i].path]

\* The place of the child with path p among the children of m.
PlaceIn(m, p) == CHOOSE i \in 1..Len(m.children) : m.children[i].path = p

ChildrenInOrder(n, order) ==
    \A i \in 1..(Len(n.children) - 1) :
        LET a == n.children[i]
            b == n.children[i + 1]
        IN  IF order = "SizeAscending" THEN total_size(a) <= total_size(b)
            ELSE IF order = "SizeDescending" THEN total_size(a) >= total_size(b)
            ELSE IF order = "Name" THEN a.path # b.path /\ PathLessEq(a.path, b.path)
            ELSE TRUE

\* C18: after sort_entries(order) the children of every node of the tree are
\* in their previous order (None), in non-decreasing total_size (SizeAscending),
\* in non-increasing total_size (SizeDescending) or in ascending order of path
\* (Name).
C18_ChildrenSortedAtEveryNode ==
    Sorted =>
        LET nodes == NodeSet(orig)
        IN  \A n \in NodeSet(tree) :
                /\ ChildrenInOrder(n, op.arg)
                /\ op.arg = "None" => ChildPaths(n) = ChildPaths(BeforeIn(nodes, n))

\* A descending sort that reordered the children of a node below the root.
C18_Witness ==
    /\ Sorted /\ op.seq = 1 /\ op.arg = "SizeDescending"
    /\ \E n \in NodeSet(tree) :
          /\ n.depth = 1 /\ Len(n.children) = 2
          /\ total_size(n.children[1]) > total_size(n.children[2])
          /\ Before(n).children[1].path = n.children[2].path

\* A sort by name that reordered the children of the root.
C18_WitnessName ==
    /\ Sorted /\ op.seq = 1 /\ op.arg = "Name"
    /\ Len(tree.children) = 3
    /\ tree # orig

\* C19: under SizeAscending and SizeDescending two children of a node with
\* equal total_size keep the order they had before sort_entries.
C19_SizeSortStableOnTies ==
    (Sorted /\ op.arg \in {"SizeAscending", "SizeDescending"}) =>
        LET nodes == NodeSet(orig)
        IN  \A n \in NodeSet(tree) :
                Len(n.children) > 1 =>
                    LET b == BeforeIn(nodes, n)
                    IN  \A i, j \in 1..Len(n.children) :
                            (i < j /\ total_size(n.children[i]) = total_size(n.children[j])) =>
                                PlaceIn(b, n.children[i].path) < PlaceIn(b, n.children[j].path)

\* A sort by size that moved a child past two children of equal total_size.
C19_Witness ==
    /\ Sorted /\ op.seq = 1 /\ op.arg = "SizeDescending"
    /\ Len(tree.children) = 3
    /\ tree # orig
    /\ total_size(tree.children[2]) = total_size(tree.children[3])
    /\ total_size(tree.children[1]) > total_size(tree.children[2])

\* C20: total_size of a node is its own size plus the total_size of its
\* children, whatever their order: sort_entries with any order leaves every
\* node's total_size, own size, path, kind, depth and set of children as they
\* were and changes only the order of siblings.
C20_SortKeepsEverythingButOrder ==
    Sorted =>
        /\ NodeCount(tree) = NodeCount(orig)
        /\ LET nodes == NodeSet(orig)
           IN  /\ {n.path : n \in NodeSet(tree)} = {m.path : m \in nodes}
               /\ Cardinality(nodes) = NodeCount(orig)
               /\ \A n \in NodeSet(tree) :
                    LET b == BeforeIn(nodes, n)
                    IN  /\ total_size(n) = total_size(b)
                        /\ n.size_bytes = b.size_bytes
                        /\ n.entry_type = b.entry_type
                        /\ n.depth = b.depth
                        /\ Len(n.children) = Len(b.children)
                        /\ {ChildPaths(n)[i] : i \in 1..Len(n.children)} =
                           {ChildPaths(b)[i] : i \in 1..Len(b.children)}
                        /\ total_size(n) =
                              n.size_bytes +
                              SumSeq([i \in 1..Len(n.children) |->
                                         total_size(n.children[i])])

\* A sort that changed the order of siblings in a tree of directories and files.
C20_Witness ==
    /\ Sorted /\ op.seq = 1 /\ op.arg = "SizeAscending"
    /\ tree # orig
    /\ NodeCount(tree) = MaxNodes
    /\ \E n \in NodeSet(tree) : n.depth = 2

(***************************************************************************)
(* Properties of build_tree (SpecBuild).                                   *)
(***************************************************************************)
BuildReturned == bpc = "returned"
BuildResult == built[1]
ReturnedTree == BuildReturned /\ BuildResult.ok

RootIndexes(s) == {i \in 1..Len(s) : s[i].depth = 0}

\* The orders of a list.
OrdersOf(s) ==
    {[i \in 1..Len(s) |-> s[f[i]]] :
        f \in {g \in [1..Len(s) -> 1..Len(s)] : \A i, j \in 1..Len(s) : g[i] = g[j] => i = j}}

SameUpToSiblingOrder(r1, r2) ==
    /\ r1.ok = r2.ok
    /\ r1.ok => Unordered(r1.value) = Unordered(r2.value)

\* A list as enumeration produces it: one root, distinct paths, and every other
\* entry one level below the entry that holds its parent path.
EnumerationShaped(s) ==
    /\ Cardinality(RootIndexes(s)) = 1
    /\ \A i, j \in 1..Len(s) : s[i].path = s[j].path => i = j
    /\ \A i \in 1..Len(s) :
          s[i].depth > 0 =>
              /\ HasParent(s[i].path)
              /\ \E j \in 1..Len(s) :
                    s[j].path = Parent(s[i].path) /\ s[j].depth + 1 = s[i].depth

EnumeratedListsBuildFaithfully ==
    (BuildReturned /\ EnumerationShaped(flat)) =>
        /\ BuildResult.ok
        /\ NodeCount(BuildResult.value) = Len(flat)
        /\ total_size(BuildResult.value) = SumSeq([i \in 1..Len(flat) |-> flat[i].size])
        /\ \A n \in NodeSet(BuildResult.value) : \A i \in 1..Len(n.children) :
              n.children[i].depth = n.depth + 1
        /\ \A perm \in OrdersOf(flat) :
              SameUpToSiblingOrder(build_tree(perm), BuildResult)

(***************************************************************************)
(* Properties of traverse and traverse_parallel (Spec).                    *)
(***************************************************************************)
BothReturned == returned.traverse # <<>> /\ returned.traverse_parallel # <<>>
SeqResult == returned.traverse[1]
ParResult == returned.traverse_parallel[1]

Calls == {"traverse", "traverse_parallel"}

\* C11: when the root path does not canonicalize, both functions return
\* PathNotFound with the path as given, and nothing after canonicalize is ever
\* started: no entry is enumerated, no pool built, no metadata read, no tree built.
C11_CanonicalizeFailureStopsPipeline ==
    ~fs.exists =>
        /\ stage \in {"Idle", "Canonicalize"}
        /\ walkStack = <<>> /\ dirEntries = <<>> /\ flatEntries = <<>>
        /\ slots = <<>> /\ workers = <<>> /\ curTree = <<>>
        /\ \A c \in Calls :
              returned[c] # <<>> => returned[c][1] = Err("PathNotFound", "path")

\* Both functions were called on a path that does not exist, and returned.
C11_Witness ==
    /\ ~fs.exists /\ BothReturned
    /\ SeqResult.kind = "PathNotFound" /\ ParResult.kind = "PathNotFound"
    /\ fs.n = MaxFsNodes

\* The entries of the filesystem the walk reaches: the root, and every entry
\* below a reached directory, except the one walkdir reports an error for.
RECURSIVE Reached(_, _)
Reached(f, i) ==
    IF i = f.badStat THEN {}
    ELSE IF FsFileType(f, i) # "dir" THEN {i}
    ELSE {i} \cup UNION {Reached(f, FsChildren(f, i)[k]) : k \in 1..Len(FsChildren(f, i))}

HoldsReachedEntries(t) ==
    /\ {n.path : n \in NodeSet(t)} = {FsPath(fs, i) : i \in Reached(fs, 1)}
    /\ NodeCount(t) = Cardinality(Reached(fs, 1))
    /\ \A n \in NodeSet(t) :
          (fs.badMeta # 0 /\ n.path = FsPath(fs, fs.badMeta)) => n.size_bytes = 0

C12_WitnessRoot ==
    /\ fs.exists /\ BothReturned /\ fs.badStat = 1
    /\ SeqResult.msg = "no entries found during traversal"
    /\ ParResult.msg = "no entries found during traversal"

\* C13: in the parallel stage every descriptor is held by at most one worker,
\* taken once, and yields one FlatEntry with the descriptor's path, kind and
\* depth; the FlatEntry list the stage hands on is as long as the descriptor list.
FromDescriptor(entry, de) ==
    /\ entry.path = de.path
    /\ entry.entry_type = dir_entry_to_entry_type(de)
    /\ entry.depth = de.depth

ParallelStageDone ==
    call = "traverse_parallel" /\ stage \in {"BuildingTree", "Collapsing", "Returning"}

C13_OneFlatEntryPerDescriptor ==
    /\ stage = "CollectingMetadata" =>
          /\ Len(slots) = Len(dirEntries)
          /\ \A i \in 1..Len(slots) :
                LET holders == {w \in 1..Len(workers) : workers[w] = i}
                IN  /\ slots[i].st = "taken" => Cardinality(holders) = 1
                    /\ slots[i].st # "taken" => holders = {}
                    /\ slots[i].st # "done" => slots[i].val = <<>>
                    /\ slots[i].st = "done" =>
                          /\ Len(slots[i].val) = 1
                          /\ FromDescriptor(slots[i].val[1], dirEntries[i])
    /\ ParallelStageDone =>
          /\ Len(flatEntries) = Len(dirEntries)
          /\ \A i \in 1..Len(dirEntries) : FromDescriptor(flatEntries[i], dirEntries[i])

\* Two workers have mapped three descriptors of three kinds.
C13_Witness ==
    /\ ParallelStageDone /\ stage = "BuildingTree"
    /\ Len(workers) = MaxThreads
    /\ Len(flatEntries) = MaxFsNodes
    /\ Cardinality({flatEntries[i].entry_type : i \in 1..Len(flatEntries)}) = 3

\* Two workers busy with different descriptors while a third is mapped.
C13_WitnessConcurrent ==
    /\ stage = "CollectingMetadata"
    /\ \E i, j, k \in 1..Len(slots) :
          slots[i].st = "taken" /\ slots[j].st = "taken" /\ i # j /\ slots[k].st = "done"

(***************************************************************************)
(* Properties of run and run_to_string (SpecRun).                          *)
(***************************************************************************)
AfterParallelStage ==
    call = "traverse_parallel" /\ stage \in {"BuildingTree", "Collapsing", "Returning"}

\* C14: tree building in traverse_parallel starts only when every worker of
\* the metadata stage has finished: build_tree gets the complete FlatEntry list,
\* and no worker is busy while the tree is built, collapsed or sorted.
C14_BuildAfterAllWorkersFinished ==
    /\ AfterParallelStage =>
          /\ \A w \in 1..Len(workers) : workers[w] = 0
          /\ \A i \in 1..Len(slots) : slots[i].st = "done"
          /\ Len(slots) = Len(dirEntries)
          /\ flatEntries = [i \in 1..Len(slots) |-> slots[i].val[1]]
    /\ runpc \in {"Sorting", "Rendering"} =>
          /\ call = "none"
          /\ \A w \in 1..Len(workers) : workers[w] = 0

\* The tree of two entries is being built after two workers mapped them.
C14_Witness ==
    /\ AfterParallelStage /\ stage = "BuildingTree"
    /\ Len(workers) = MaxThreads
    /\ Len(flatEntries) = MaxRunFsNodes
    /\ pathIdx = MaxPaths

\* The stage a path's pipeline is in; "Returned" is traverse_parallel back in
\* run_to_string, "Done" the end of the path's loop iteration (and the start of
\* the loop).
Phase ==
    IF runpc = "traversing" THEN (IF call = "none" THEN "Returned" ELSE stage)
    ELSE IF runpc = "loop" THEN "Done"
    ELSE runpc

StageFailed(r) == r # <<>> /\ ~r[1].ok

\* The steps from stage to stage the pipeline order allows.
StageStep ==
    \/ Phase' = Phase /\ Phase \in {"Enumerating", "CollectingMetadata"}
    \/ Phase = "Done" /\ Phase' = "Canonicalize"
    \/ Phase = "Canonicalize" /\ Phase' = "Enumerating"
    \/ Phase = "Enumerating" /\ Phase' = "BuildPool"
    \/ Phase = "BuildPool" /\ Phase' = "CollectingMetadata"
    \/ Phase = "CollectingMetadata" /\ Phase' = "BuildingTree"
    \/ Phase = "BuildingTree" /\ Phase' = "Collapsing" /\ maxDepth # <<>>
    \/ Phase = "BuildingTree" /\ Phase' = "Returning" /\ maxDepth = <<>>
    \/ Phase = "Collapsing" /\ Phase' = "Returning"
    \/ Phase = "Returning" /\ Phase' = "Returned"
          /\ ~StageFailed(returned'.traverse_parallel)
    \/ Phase \in {"Canonicalize", "BuildPool", "BuildingTree"} /\ Phase' = "Returned"
          /\ StageFailed(returned'.traverse_parallel)
    \/ Phase = "Returned" /\ Phase' = "Sorting"
          /\ ~StageFailed(returned.traverse_parallel)
    \/ Phase = "Returned" /\ Phase' = "returned"
          /\ StageFailed(returned.traverse_parallel) /\ StageFailed(runResult')
    \/ Phase = "Sorting" /\ Phase' = "Rendering"
    \/ Phase = "Rendering" /\ Phase' = "Done"
    \/ Phase = "Done" /\ Phase' = "returned" /\ pathIdx = Len(paths)
          /\ ~StageFailed(runResult')
    \/ Phase = "returned" /\ Phase' = "done"

\* C15: for each root path the stages run in the order Enumerating,
\* CollectingMetadata, BuildingTree, Collapsing (only when max_depth is set),
\* Sorting, Done, each after the one before it completed; when a stage fails no
\* later stage runs and the result for the path is an error.
C15_StagesInFixedOrder == [][StageStep]_vars

\* Two paths went through every stage, Collapsing included.
C15_Witness ==
    /\ runpc = "done" /\ pathIdx = MaxPaths /\ maxDepth # <<>>
    /\ Len(stdout) = 1 /\ Len(stdout[1]) = MaxPaths
    /\ \A i \in 1..Len(paths) : paths[i].n = MaxRunFsNodes

\* A stage of the second path failed after the first path was done.
C15_WitnessFailed ==
    /\ runpc = "returned" /\ pathIdx = MaxPaths /\ StageFailed(runResult)
    /\ outcomes[1].ok
    /\ runResult[1].msg = "no entries found during traversal"

FailedOutcomes == {i \in 1..Len(outcomes) : ~outcomes[i].ok}

\* C16: when the pipeline of any of the paths ends in an error, run_to_string
\* returns that error and run prints nothing: no output is returned for any
\* path, also not for those analysed before the failing one, and the paths after
\* it are never analysed.  Without an error there is output for every path.
C16_ErrorAbortsBatch ==
    runpc \in {"returned", "done"} =>
        IF FailedOutcomes # {}
        THEN /\ FailedOutcomes = {Len(outcomes)}
             /\ pathIdx = Len(outcomes)
             /\ runResult = <<outcomes[Len(outcomes)]>>
             /\ ~runResult[1].ok /\ runResult[1].value = <<>>
             /\ results = <<>>
             /\ stdout = <<>>
        ELSE /\ Len(outcomes) = Len(paths)
             /\ runResult[1].ok /\ Len(runResult[1].value) = Len(paths)
             /\ runpc = "done" => stdout = <<runResult[1].value>>

\* The first path was analysed and rendered, the second failed, a third was
\* never started; run has returned.
C16_Witness ==
    /\ runpc = "done"
    /\ Len(paths) = MaxPaths
    /\ Len(outcomes) = MaxPaths /\ outcomes[1].ok /\ ~outcomes[MaxPaths].ok
    /\ stdout = <<>>

\* The first of two paths failed: the second was never analysed.
C16_WitnessFirst ==
    /\ runpc = "done" /\ Len(paths) = MaxPaths /\ pathIdx = 1
    /\ ~outcomes[1].ok /\ paths[MaxPaths].exists

BelowLink(f) == {k \in 2..f.n : f.par[k] = f.special}

HasEnterableLink(f) ==
    f.special >= 2 /\ f.specialKind = "Symlink" /\ BelowLink(f) # {}

SymlinksAreLeaves(t) ==
    \A n \in NodeSet(t) :
        /\ n.entry_type = "Symlink" => n.children = <<>>
        /\ \A k \in 1..Len(n.children) :
              n.children[k].entry_type = "Symlink" =>
                  n.children[k].depth = n.depth + 1

\* C21: enumeration never enters the target of a symbolic link below the
\* root: every Symlink node of a tree traverse or traverse_parallel returns
\* is a leaf, one level below its parent, and nothing the link leads to has a
\* node.
C21_SymlinksAreLeaves ==
    \A c \in Calls :
        (returned[c] # <<>> /\ returned[c][1].ok) =>
            LET t == returned[c][1].value
            IN  /\ SymlinksAreLeaves(t)
                /\ \A n \in NodeSet(t) : \A k \in BelowLink(fs) : n.path # FsPath(fs, k)

\* Both functions returned a tree for a root that holds a link with an entry
\* behind it: the link has a node, the entry behind it has none.
C21_Witness ==
    /\ BothReturned /\ SeqResult.ok /\ ParResult.ok
    /\ fs.n = MaxFsNodes /\ HasEnterableLink(fs) /\ fs.special = 2
    /\ fs.badStat = 0 /\ maxDepth = <<>>
    /\ NodeCount(SeqResult.value) = 2 /\ NodeCount(ParResult.value) = 2
    /\ \E n \in NodeSet(ParResult.value) : n.entry_type = "Symlink" /\ n.depth = 1

NoEntryTwice(es) == \A i, j \in 1..Len(es) : es[i].path = es[j].path => i = j

PoolStep ==
    stage = "BuildPool" =>
        /\ slots = <<>> /\ flatEntries = <<>> /\ curTree = <<>>
        /\ \/ /\ stage' = "CollectingMetadata" /\ call' = call
              /\ Len(workers') =
                    (IF numThreads = <<>> THEN DefaultThreads ELSE numThreads[1])
           \/ /\ stage' = "Idle" /\ call' = "none"
              /\ returned'.traverse_parallel = <<Err("TraversalError", "thread pool")>>
              /\ slots' = <<>> /\ flatEntries' = <<>> /\ curTree' = <<>>

\* C23: when the pool cannot be built traverse_parallel returns
\* TraversalError at once: no metadata is collected, no tree built or
\* collapsed.  When it can, it has num_threads workers, and the default
\* number when no count is given.
C23_PoolFailureReturnsAtOnce == [][PoolStep]_vars

\* No count was given, the pool could not be built, and traverse_parallel
\* returned the error for a root traverse returned a tree for.
C23_Witness ==
    /\ BothReturned /\ SeqResult.ok /\ numThreads = <<>>
    /\ ParResult = Err("TraversalError", "thread pool")
    /\ fs.n = MaxFsNodes

\* No count was given and the pool was built, with the default size.
C23_WitnessDefault ==
    /\ stage = "CollectingMetadata" /\ numThreads = <<>>
    /\ Len(workers) = DefaultThreads /\ Len(slots) = MaxFsNodes

C24_WitnessFile ==
    /\ fs.exists /\ fs.n = 1 /\ fs.badStat = 0 /\ fs.badMeta = 0 /\ fs.special = 0
    /\ BothReturned /\ SeqResult.ok /\ ParResult.ok
    /\ ParResult.value.entry_type = "File" /\ ParResult.value.size_bytes = 1

(***************************************************************************)
(* Properties of build_tree's loop (SpecBuild).                            *)
(***************************************************************************)
AboutToProcess == bpc = "loop" /\ sorted # <<>>

\* The entries the loop has processed, in the order it processed them.
Processed == SubSeq(SortByDepthDescending(flat), 1, Len(flat) - Len(sorted))

IsBelow(p, q) == Len(q) > Len(p) /\ SubSeq(q, 1, Len(p)) = p

HeldUnder(map, parent, path) ==
    \E k \in 1..Len(TakeChildren(map, parent)) : TakeChildren(map, parent)[k].path = path

NonIncreasingDepth ==
    \A i \in 1..Len(sorted) : sorted[i].depth <= Head(sorted).depth

\* C26 as stated: entries are processed in non-increasing depth order; when
\* an entry is processed every input entry below it, of greater depth, has been
\* processed and its node is in the map under its parent's path; the children
\* the entry takes are the nodes of the entries just below it.
C26_DescendantsHeldUnderTheirParents ==
    AboutToProcess =>
        LET e == Head(sorted)
        IN  /\ NonIncreasingDepth
            /\ \A i \in 1..Len(flat) :
                  (IsBelow(e.path, flat[i].path) /\ flat[i].depth > e.depth) =>
                      /\ \E k \in 1..Len(Processed) : Processed[k] = flat[i]
                      /\ HeldUnder(children_map, Parent(flat[i].path), flat[i].path)
            /\ {n.path : n \in {TakeChildren(children_map, e.path)[k] :
                                   k \in 1..Len(TakeChildren(children_map, e.path))}} =
                  {flat[i].path : i \in {j \in 1..Len(flat) :
                      HasParent(flat[j].path) /\ Parent(flat[j].path) = e.path
                      /\ flat[j].depth > e.depth}}

\* The processed entries whose nodes wait under `path`: those pushed under it
\* since an entry of that path last emptied its place.
WaitingFor(path) ==
    LET done == Processed
        same == {k \in 1..Len(done) : done[k].path = path}
        last == IF same = {} THEN 0 ELSE CHOOSE k \in same : \A x \in same : x <= k
        idx == SelectSeq([k \in 1..Len(done) |-> k],
                         LAMBDA k : /\ k > last
                                    /\ done[k].depth # 0
                                    /\ HasParent(done[k].path)
                                    /\ Parent(done[k].path) = path)
    IN  [k \in 1..Len(idx) |-> done[idx[k]]]

\* C26 (amended): entries are processed in non-increasing depth order, so
\* when an entry is processed every input entry of greater depth has been
\* processed; the map holds under the entry's path, in the order they were
\* processed, exactly the nodes of the processed entries of depth > 0 whose
\* parent path it is and that no earlier entry of the same path has taken, and
\* these are the children the entry takes.  The nodes of deeper entries are not
\* in the map under their parents' paths: the entries that took them hold them.
C26_ChildrenTakenAreThoseWaiting ==
    AboutToProcess =>
        LET e == Head(sorted)
            taken == TakeChildren(children_map, e.path)
            waiting == WaitingFor(e.path)
        IN  /\ NonIncreasingDepth
            /\ \A i \in 1..Len(flat) :
                  flat[i].depth > e.depth =>
                      \E k \in 1..Len(Processed) : Processed[k] = flat[i]
            /\ Len(taken) = Len(waiting)
            /\ \A k \in 1..Len(taken) :
                  /\ taken[k].path = waiting[k].path
                  /\ taken[k].size_bytes = waiting[k].size
                  /\ taken[k].entry_type = waiting[k].entry_type
                  /\ taken[k].depth = waiting[k].depth
                  /\ \A c \in 1..Len(taken[k].children) :
                        ~HeldUnder(children_map, taken[k].path, taken[k].children[c].path)

\* The root of the tests' directory is about to be processed: it takes its two
\* children, one of which holds the entries two and three levels down.
C26_Witness ==
    /\ AboutToProcess /\ flat = TestTreeList /\ Len(sorted) = 1
    /\ Len(TakeChildren(children_map, Head(sorted).path)) = 2
    /\ DOMAIN children_map = {Head(sorted).path}
    /\ NodeCount(TakeChildren(children_map, Head(sorted).path)[2]) = 4

\* The place of a record in the order of processing.
IsOrphan(S, k) ==
    /\ S[k].depth > 0
    /\ \/ ~HasParent(S[k].path)
       \/ \A j \in (k + 1)..Len(S) : S[j].path # Parent(S[k].path)

AttachedBelowRoot(t, entry) ==
    \E n \in NodeSet(t) \ {t} :
        n.path = entry.path /\ n.size_bytes = entry.size /\ n.depth = entry.depth

C27_CollapseAndSortCommute ==
    Collapsed =>
        \A order \in SortOrders :
            sort_entries(tree, order) =
                collapse_to_depth(sort_entries(orig, order), op.arg)

\* A tree was collapsed to depth 1, which removed nodes and left siblings
\* that sorting by size reorders.
C27_Witness ==
    /\ Collapsed /\ op.arg = 1 /\ op.seq = 1
    /\ NodeCount(orig) = MaxNodes /\ NodeCount(tree) < NodeCount(orig)
    /\ Len(tree.children) >= 2
    /\ sort_entries(tree, "SizeDescending") # tree
    /\ sort_entries(orig, "SizeDescending") # orig

(***************************************************************************)
(* dictation, hotkey/manager.rs: DictationManager.  A method is the pair   *)
(* of the state it leaves and the Result it returns.                       *)
(***************************************************************************)
\* enum DictationState
DictationStates == {"Idle", "Recording", "Transcribing", "Error"}

\* impl Display for DictationState
Display(s) ==
    IF s = "Idle" THEN "idle"
    ELSE IF s = "Recording" THEN "recording"
    ELSE IF s = "Transcribing" THEN "transcribing"
    ELSE "error"

\* Ok(())
OkUnit == [ok |-> TRUE, kind |-> "", from |-> "", to |-> ""]

\* DictationError::InvalidStateTransition { from, to }
InvalidStateTransition(from, to) ==
    [ok |-> FALSE, kind |-> "InvalidStateTransition", from |-> from, to |-> to]

on_hotkey_pressed(s) ==
    IF s = "Idle" THEN [state |-> "Recording", result |-> OkUnit]
    ELSE [state |-> s, result |-> InvalidStateTransition(Display(s), "recording")]

on_hotkey_released(s) ==
    IF s = "Recording" THEN [state |-> "Transcribing", result |-> OkUnit]
    ELSE [state |-> s, result |-> InvalidStateTransition(Display(s), "transcribing")]

on_transcription_complete(s) ==
    IF s = "Transcribing" THEN [state |-> "Idle", result |-> OkUnit]
    ELSE [state |-> s, result |-> InvalidStateTransition(Display(s), "idle")]

on_error(s) == [state |-> "Error", result |-> OkUnit]

\* A reset that goes to Idle from every state.
ResetFromAnyState(s) == [state |-> "Idle", result |-> OkUnit]

reset(s) ==
    IF s = "Error" THEN [state |-> "Idle", result |-> OkUnit]
    ELSE [state |-> s, result |-> InvalidStateTransition(Display(s), "idle")]

(***************************************************************************)
(* SpecManager: up to MaxManagerCalls calls, in any order, on a            *)
(* DictationManager::new().  `history` holds each call with the state      *)
(* before it, the state after it and what it returned.                     *)
(***************************************************************************)
MaxManagerCalls == 4

InitManager ==
    /\ manager = "Idle"
    /\ history = <<>>
    /\ recorder = "None" /\ inflight = <<>>
    /\ IdlePager /\ IdleTree /\ IdleBuild /\ IdleTrav /\ IdleRun

\* One call of a method: `r` is what the method gives in the present state.
ManagerCall(name, r) ==
    /\ Len(history) < MaxManagerCalls
    /\ manager' = r.state
    /\ history' = Append(history, [call |-> name, from |-> manager, to |-> r.state,
                                   result |-> r.result])
    /\ UNCHANGED <<recorder, inflight, pagerVars, treeVars, buildVars, travVars, runVars>>

OnHotkeyPressed == ManagerCall("on_hotkey_pressed", on_hotkey_pressed(manager))
OnHotkeyReleased == ManagerCall("on_hotkey_released", on_hotkey_released(manager))
OnTranscriptionComplete ==
    ManagerCall("on_transcription_complete", on_transcription_complete(manager))
OnError == ManagerCall("on_error", on_error(manager))
Reset == ManagerCall("reset", reset(manager))

NextManager ==
    \/ OnHotkeyPressed
    \/ OnHotkeyReleased
    \/ OnTranscriptionComplete
    \/ OnError
    \/ Reset

SpecManager == InitManager /\ [][NextManager]_vars

\* The one state each fallible call is made from, and the state it leads to.
SourceOf(name) ==
    IF name = "on_hotkey_pressed" THEN "Idle"
    ELSE IF name = "on_hotkey_released" THEN "Recording"
    ELSE IF name = "on_transcription_complete" THEN "Transcribing"
    ELSE "Error"

TargetOf(name) ==
    IF name = "on_hotkey_pressed" THEN "Recording"
    ELSE IF name = "on_hotkey_released" THEN "Transcribing"
    ELSE "Idle"

\* C25: the state of a DictationManager changes only along Idle->Recording
\* (on_hotkey_pressed), Recording->Transcribing (on_hotkey_released),
\* Transcribing->Idle (on_transcription_complete), any state->Error (on_error)
\* and Error->Idle (reset); a fallible call made in another state returns
\* InvalidStateTransition and leaves the state as it was.
C25_OnlyTheFiveTransitions ==
    /\ manager = (IF history = <<>> THEN "Idle" ELSE history[Len(history)].to)
    /\ \A k \in 1..Len(history) :
          LET h == history[k]
          IN  /\ h.from = (IF k = 1 THEN "Idle" ELSE history[k - 1].to)
              /\ IF h.call = "on_error"
                 THEN h.to = "Error" /\ h.result.ok
                 ELSE IF h.from = SourceOf(h.call)
                 THEN h.to = TargetOf(h.call) /\ h.result.ok
                 ELSE /\ h.to = h.from
                      /\ ~h.result.ok
                      /\ h.result.kind = "InvalidStateTransition"
                      /\ h.result.from = Display(h.from)

\* A release refused in Idle, then a press, an error while recording, a reset,
\* and a reset refused in Idle.
C25_Witness ==
    /\ Len(history) = MaxManagerCalls
    /\ history[1].call = "on_hotkey_released" /\ ~history[1].result.ok
    /\ history[2].call = "on_hotkey_pressed" /\ history[2].to = "Recording"
    /\ history[3].call = "on_error" /\ history[3].from = "Recording"
    /\ history[4].call = "reset" /\ history[4].result.ok
    /\ manager = "Idle"

\* The full cycle, and a reset refused in Idle after it.
C25_WitnessCycle ==
    /\ Len(history) = MaxManagerCalls
    /\ history[1].to = "Recording" /\ history[2].to = "Transcribing"
    /\ history[3].call = "on_transcription_complete" /\ history[3].to = "Idle"
    /\ history[4].call = "reset" /\ ~history[4].result.ok

(***************************************************************************)
(* SpecDictation: the dictation app.  Up to MaxEvents hotkey events and    *)
(* start_dictation, stop_dictation and reset_dictation commands arrive in  *)
(* any order; each handler runs to its return, or to the point where it    *)
(* awaits the transcription, before the next one starts.  The recorder is  *)
(* None, or an AudioRecorder that is Idle or Recording.  Whether the host  *)
(* has an input device, whether the device gives a stream, whether audio   *)
(* was captured and how resampling, the engine, the transcription and the  *)
(* injection end is chosen freely.  `inflight` holds the transcriptions    *)
(* that were started and have not ended; `history` holds each event with   *)
(* what its handler returned (a command) or emitted (a hotkey event).      *)
(***************************************************************************)
MaxEvents == 4

\* AppState::ensure_recorder; deviceOk: the host has a default input device.
ensure_recorder(r, deviceOk) ==
    IF r # "None" THEN [recorder |-> r, ok |-> TRUE]
    ELSE IF deviceOk THEN [recorder |-> "Idle", ok |-> TRUE]
    ELSE [recorder |-> "None", ok |-> FALSE]

\* AudioRecorder::start; streamOk: the device gives a config and a playing stream.
start(r, streamOk) ==
    IF r = "Recording" \/ ~streamOk THEN [recorder |-> r, ok |-> FALSE]
    ELSE [recorder |-> "Recording", ok |-> TRUE]

\* AudioRecorder::stop
stop(r) ==
    IF r # "Recording" THEN [recorder |-> r, ok |-> FALSE]
    ELSE [recorder |-> "Idle", ok |-> TRUE]

\* The captured audio, and how resample_to_16khz_mono ends on it: no samples
\* resample to no samples.
Captures == {"empty", "samples", "unresamplable"}

InitDictation ==
    /\ manager = "Idle"
    /\ recorder = "None"
    /\ inflight = <<>>
    /\ history = <<>>
    /\ IdlePager /\ IdleTree /\ IdleBuild /\ IdleTrav /\ IdleRun

Handled(event, outcome) ==
    /\ Len(history) < MaxEvents
    /\ history' = Append(history, [event |-> event, outcome |-> outcome])
    /\ UNCHANGED <<pagerVars, treeVars, buildVars, travVars, runVars>>

RemoveAt(seq, i) == SubSeq(seq, 1, i - 1) \o SubSeq(seq, i + 1, Len(seq))

\* pipeline.rs: handle_press.
HandlePress ==
    \E deviceOk, streamOk \in BOOLEAN :
        LET ensured == ensure_recorder(recorder, deviceOk)
            pressed == on_hotkey_pressed(manager)
            started == start(ensured.recorder, streamOk)
        IN  /\ UNCHANGED inflight
            /\ IF ~ensured.ok
               THEN /\ manager' = on_error(manager).state
                    /\ recorder' = ensured.recorder
                    /\ Handled("press", "error")
               ELSE IF ~pressed.result.ok
               THEN /\ manager' = pressed.state
                    /\ recorder' = ensured.recorder
                    /\ Handled("press", "refused")
               ELSE IF ~started.ok
               THEN /\ manager' = on_error(pressed.state).state
                    /\ recorder' = started.recorder
                    /\ Handled("press", "error")
               ELSE /\ manager' = pressed.state
                    /\ recorder' = started.recorder
                    /\ Handled("press", "recording")

\* commands.rs: start_dictation.  Each `?` returns the error as it is.
StartDictation ==
    \E deviceOk, streamOk \in BOOLEAN :
        LET ensured == ensure_recorder(recorder, deviceOk)
            pressed == on_hotkey_pressed(manager)
            started == start(ensured.recorder, streamOk)
        IN  /\ UNCHANGED inflight
            /\ IF ~ensured.ok
               THEN /\ UNCHANGED manager
                    /\ recorder' = ensured.recorder
                    /\ Handled("start_dictation", "Err(Audio)")
               ELSE IF ~pressed.result.ok
               THEN /\ manager' = pressed.state
                    /\ recorder' = ensured.recorder
                    /\ Handled("start_dictation", "Err(InvalidStateTransition)")
               ELSE IF ~started.ok
               THEN /\ manager' = pressed.state
                    /\ recorder' = started.recorder
                    /\ Handled("start_dictation", "Err(Audio)")
               ELSE /\ manager' = pressed.state
                    /\ recorder' = started.recorder
                    /\ Handled("start_dictation", "Ok")

\* pipeline.rs: handle_release, up to the spawn of the task.
HandleRelease ==
    \E audio \in Captures :
        LET released == on_hotkey_released(manager)
            stopped == stop(recorder)
        IN  IF ~released.result.ok
            THEN /\ UNCHANGED <<manager, recorder, inflight>>
                 /\ Handled("release", "refused")
            ELSE IF recorder = "None" \/ ~stopped.ok
            THEN /\ manager' = on_error(released.state).state
                 /\ UNCHANGED <<recorder, inflight>>
                 /\ Handled("release", "error")
            ELSE /\ manager' = released.state
                 /\ recorder' = stopped.recorder
                 /\ inflight' = Append(inflight, [audio |-> audio, at |-> "spawned"])
                 /\ Handled("release", "transcribing")

\* commands.rs: stop_dictation, up to `engine.transcribe(&resampled).await`.
StopDictation ==
    \E audio \in Captures, engineOk \in BOOLEAN :
        LET released == on_hotkey_released(manager)
            stopped == stop(recorder)
        IN  IF ~released.result.ok
            THEN /\ UNCHANGED <<manager, recorder, inflight>>
                 /\ Handled("stop_dictation", "Err(InvalidStateTransition)")
            ELSE IF recorder = "None" \/ ~stopped.ok
            THEN /\ manager' = released.state
                 /\ UNCHANGED <<recorder, inflight>>
                 /\ Handled("stop_dictation", "Err(Audio)")
            ELSE IF audio = "unresamplable"
            THEN /\ manager' = released.state
                 /\ recorder' = stopped.recorder
                 /\ UNCHANGED inflight
                 /\ Handled("stop_dictation", "Err(Audio)")
            ELSE IF audio = "empty" \/ ~engineOk
            THEN /\ manager' = on_error(released.state).state
                 /\ recorder' = stopped.recorder
                 /\ UNCHANGED inflight
                 /\ Handled("stop_dictation", "Err")
            ELSE /\ manager' = released.state
                 /\ recorder' = stopped.recorder
                 /\ inflight' = Append(inflight, [audio |-> audio, at |-> "transcribe"])
                 /\ Handled("stop_dictation", "awaiting")

\* commands.rs: reset_dictation.
ResetDictation ==
    /\ manager' = reset(manager).state
    /\ UNCHANGED <<recorder, inflight>>
    /\ Handled("reset_dictation", IF reset(manager).result.ok THEN "Ok"
                                  ELSE "Err(InvalidStateTransition)")

\* The spawned task of handle_release runs up to its await: resampling, the
\* empty check and create_engine, each ending in pipeline_error when it fails.
TaskStarts(i) ==
    /\ inflight[i].at = "spawned"
    /\ \E engineOk \in BOOLEAN :
          IF inflight[i].audio # "samples" \/ ~engineOk
          THEN /\ manager' = on_error(manager).state
               /\ inflight' = RemoveAt(inflight, i)
          ELSE /\ inflight' = [inflight EXCEPT ![i].at = "transcribe"]
               /\ UNCHANGED manager
    /\ UNCHANGED <<recorder, history, pagerVars, treeVars, buildVars, travVars, runVars>>

\* engine.transcribe(..).await returns: an error of the transcription or of
\* the injection ends in on_error, success in on_transcription_complete, whose
\* own error is only printed.
TaskEnds(i) ==
    /\ inflight[i].at = "transcribe"
    /\ \E ok \in BOOLEAN :
          manager' = IF ok THEN on_transcription_complete(manager).state
                     ELSE on_error(manager).state
    /\ inflight' = RemoveAt(inflight, i)
    /\ UNCHANGED <<recorder, history, pagerVars, treeVars, buildVars, travVars, runVars>>

NextDictation ==
    \/ HandlePress
    \/ HandleRelease
    \/ StartDictation
    \/ StopDictation
    \/ ResetDictation
    \/ \E i \in 1..Len(inflight) : TaskStarts(i)
    \/ \E i \in 1..Len(inflight) : TaskEnds(i)

SpecDictation == InitDictation /\ [][NextDictation]_vars

\* C29: the DictationManager is never left in Recording or Transcribing with
\* nothing that will move it on: while it is Recording the AudioRecorder is
\* Recording, and while it is Transcribing a transcription is in flight.
C29_NeverLeftWithoutProgress ==
    /\ manager = "Recording" => recorder = "Recording"
    /\ manager = "Transcribing" => inflight # <<>>

(***************************************************************************)
(* SpecPager: less-clone's PagerState under the events run_pager_inner     *)
(* reads.  The buffer holds up to MaxLines lines, each the letter "a" or   *)
(* "b"; the terminal has up to MaxRows rows; a search pattern is up to     *)
(* MaxInput typed characters, "a" or "(": the empty pattern matches every  *)
(* line, "a" the lines "a", and a pattern with "(" is no regex.  Quit,     *)
(* the help screen, line numbers and the width do not touch top_line and   *)
(* are left out.                                                           *)
(***************************************************************************)
MaxLines == 4
MaxRows == 4
MaxInput == 1

Letters == {"a", "b"}
Typed == {"a", "("}

Buffers == UNION {[1..n -> Letters] : n \in 0..MaxLines}

\* usize::saturating_sub
saturating_sub(x, y) == IF x >= y THEN x - y ELSE 0

Min(x, y) == IF x <= y THEN x ELSE y

\* PagerState::content_rows
content_rows(r) == saturating_sub(r, 1)

\* let max_top = buffer.line_count().saturating_sub(self.content_rows());
MaxTop(buf, r) == saturating_sub(Len(buf), content_rows(r))

\* A scroll that does not look at max_top.
NotClamped(x, max_top) == x

\* (self.top_line + lines).min(max_top)
ClampedToMaxTop(x, max_top) == Min(x, max_top)

\* PagerState::scroll_down
scroll_down(top, lines, buf, r) == ClampedToMaxTop(top + lines, MaxTop(buf, r))

\* PagerState::scroll_up
scroll_up(top, lines) == saturating_sub(top, lines)

\* Regex::new(pattern) is Ok
IsRegex(pat) == \A k \in 1..Len(pat) : pat[k] # "("

\* self.regex.is_match(line)
Matches(pat, line) == pat = <<>> \/ pat = <<line>>

\* The 0-based indexes of the lines the pattern matches.
MatchingLines(buf, pat) == {i \in 0..(Len(buf) - 1) : Matches(pat, buf[i + 1])}

FirstIn(S) == IF S = {} THEN <<>> ELSE <<CHOOSE i \in S : \A j \in S : i <= j>>
LastIn(S) == IF S = {} THEN <<>> ELSE <<CHOOSE i \in S : \A j \in S : j <= i>>

\* SearchState::find_forward: after from_line, then from line 0 up to from_line.
find_forward(buf, pat, from_line) ==
    IF Len(buf) = 0 THEN <<>>
    ELSE LET m == MatchingLines(buf, pat)
             after == {i \in m : i > from_line}
         IN  IF after # {} THEN FirstIn(after)
             ELSE FirstIn({i \in m : i <= Min(from_line, Len(buf) - 1)})

\* SearchState::find_backward: before from_line, then from the end down to from_line.
find_backward(buf, pat, from_line) ==
    IF Len(buf) = 0 THEN <<>>
    ELSE LET m == MatchingLines(buf, pat)
             before == {i \in m : i < from_line}
         IN  IF before # {} THEN LastIn(before)
             ELSE LastIn({i \in m : i >= from_line})

find(buf, pat, direction, from_line) ==
    IF direction = "Forward" THEN find_forward(buf, pat, from_line)
    ELSE find_backward(buf, pat, from_line)

Opposite(direction) == IF direction = "Forward" THEN "Backward" ELSE "Forward"

\* if let Some(line) = found { self.top_line = line; }
TopAfter(found) == IF found = <<>> THEN top_line ELSE found[1]

InitPager ==
    /\ buffer \in Buffers
    /\ rows \in 0..MaxRows
    /\ top_line = 0
    /\ mode = "Normal"
    /\ search = <<>>
    /\ search_input = <<>>
    /\ lastAction = "None"
    /\ IdleDictation /\ IdleTree /\ IdleBuild /\ IdleTrav /\ IdleRun

\* state.apply_action(action, buffer) in Mode::Normal, for an action that
\* only moves top_line.
Moves(action, top) ==
    /\ mode = "Normal"
    /\ top_line' = top
    /\ lastAction' = action
    /\ UNCHANGED <<buffer, rows, mode, search, search_input,
                   dictVars, treeVars, buildVars, travVars, runVars>>

ScrollDown == Moves("ScrollDown", scroll_down(top_line, 1, buffer, rows))
ScrollUp == Moves("ScrollUp", scroll_up(top_line, 1))
PageDown == Moves("PageDown", scroll_down(top_line, content_rows(rows), buffer, rows))
PageUp == Moves("PageUp", scroll_up(top_line, content_rows(rows)))
HalfPageDown ==
    Moves("HalfPageDown", scroll_down(top_line, content_rows(rows) \div 2, buffer, rows))
HalfPageUp == Moves("HalfPageUp", scroll_up(top_line, content_rows(rows) \div 2))
GoToTop == Moves("GoToTop", 0)
GoToBottom == Moves("GoToBottom", saturating_sub(Len(buffer), content_rows(rows)))

\* PagerState::navigate_match
navigate_match(reverse) ==
    IF search = <<>> THEN top_line
    ELSE TopAfter(find(buffer, search[1].pattern,
                       IF reverse THEN Opposite(search[1].direction)
                       ELSE search[1].direction,
                       top_line))

NextMatch == Moves("NextMatch", navigate_match(FALSE))
PrevMatch == Moves("PrevMatch", navigate_match(TRUE))

\* Action::SearchForward, Action::SearchBackward
EnterSearch(direction) ==
    /\ mode = "Normal"
    /\ mode' = direction
    /\ search_input' = <<>>
    /\ lastAction' = "Search" \o direction
    /\ UNCHANGED <<buffer, rows, top_line, search,
                   dictVars, treeVars, buildVars, travVars, runVars>>

\* Action::Resize(cols, rows)
Resize(r) ==
    /\ mode = "Normal"
    /\ rows' = r
    /\ lastAction' = "Resize"
    /\ UNCHANGED <<buffer, top_line, mode, search, search_input,
                   dictVars, treeVars, buildVars, travVars, runVars>>

\* handle_search_input, KeyCode::Char(c) and KeyCode::Backspace
TypeChar(c) ==
    /\ mode # "Normal"
    /\ Len(search_input) < MaxInput
    /\ search_input' = Append(search_input, c)
    /\ lastAction' = "Char"
    /\ UNCHANGED <<buffer, rows, top_line, mode, search,
                   dictVars, treeVars, buildVars, travVars, runVars>>

Backspace ==
    /\ mode # "Normal"
    /\ search_input' = IF search_input = <<>> THEN <<>>
                       ELSE SubSeq(search_input, 1, Len(search_input) - 1)
    /\ lastAction' = "Backspace"
    /\ UNCHANGED <<buffer, rows, top_line, mode, search,
                   dictVars, treeVars, buildVars, travVars, runVars>>

\* handle_search_input, KeyCode::Enter: PagerState::submit_search
SubmitSearch ==
    /\ mode # "Normal"
    /\ IF IsRegex(search_input)
       THEN /\ top_line' = TopAfter(find(buffer, search_input, mode, top_line))
            /\ search' = <<[pattern |-> search_input, direction |-> mode]>>
       ELSE UNCHANGED <<top_line, search>>
    /\ mode' = "Normal"
    /\ search_input' = <<>>
    /\ lastAction' = "SubmitSearch"
    /\ UNCHANGED <<buffer, rows, dictVars, treeVars, buildVars, travVars, runVars>>

\* handle_search_input, KeyCode::Esc and Ctrl-C: PagerState::cancel_search
CancelSearch ==
    /\ mode # "Normal"
    /\ mode' = "Normal"
    /\ search_input' = <<>>
    /\ lastAction' = "CancelSearch"
    /\ UNCHANGED <<buffer, rows, top_line, search,
                   dictVars, treeVars, buildVars, travVars, runVars>>

NextPager ==
    \/ ScrollDown \/ ScrollUp
    \/ PageDown \/ PageUp
    \/ HalfPageDown \/ HalfPageUp
    \/ GoToTop \/ GoToBottom
    \/ NextMatch \/ PrevMatch
    \/ \E direction \in {"Forward", "Backward"} : EnterSearch(direction)
    \/ \E r \in 0..MaxRows : Resize(r)
    \/ \E c \in Typed : TypeChar(c)
    \/ Backspace
    \/ SubmitSearch
    \/ CancelSearch

SpecPager == InitPager /\ [][NextPager]_vars

\* C30 as stated: after any sequence of actions top_line is at most
\* max(0, line_count - content_rows), the bound scrolling down clamps to.
C30_TopLineWithinMaxTop == top_line <= MaxTop(buffer, rows)

ClampingActions == {"ScrollDown", "PageDown", "HalfPageDown", "GoToBottom"}

\* C30 (amended): top_line is never greater than line_count; after a scroll
\* down by a line, half a page or a page, or after go-to-bottom, it is at most
\* max(0, line_count - content_rows).  A search submit or next/previous match
\* may leave it above that bound, on the matching line, and a resize keeps it
\* while the bound changes.
C30_TopLineWithinBuffer ==
    /\ top_line <= Len(buffer)
    /\ lastAction \in ClampingActions => top_line <= MaxTop(buffer, rows)

\* A search has put the last line, which is below max_top, at the top.
C30_Witness ==
    /\ lastAction = "SubmitSearch"
    /\ Len(buffer) = MaxLines /\ rows = MaxRows
    /\ top_line = MaxLines - 1 /\ top_line > MaxTop(buffer, rows)

\* A scroll down has brought top_line back to max_top.
C30_WitnessClamped ==
    /\ lastAction = "ScrollDown" /\ search # <<>>
    /\ Len(buffer) = MaxLines /\ rows = MaxRows - 1
    /\ top_line = MaxTop(buffer, rows) /\ top_line > 0

====
